---------------------------- MODULE Spec2Model ----------------------------
(***************************************************************************)
(* A model of src/python.c, the CPython binding of the UJRPC server:       *)
(*   - deduce_parameters: introspection of a callable into the global      *)
(*     descriptor array `wrap.u_params`;                                   *)
(*   - server_add_procedure: registration of a callable with the engine;   *)
(*   - wrapper: the per-call marshaller the engine invokes;                *)
(*   - server_run: the bounded serving loop.                               *)
(*                                                                         *)
(* Python objects are records.  A function object carries what the code    *)
(* reads from it: __name__, __code__ (co_argcount, co_posonlyargcount,     *)
(* co_kwonlyargcount, co_flags, co_varnames), __defaults__,                *)
(* __kwdefaults__ and its annotations.  Parameter names are indices into   *)
(* co_varnames (0-based, as PyTuple_GetItem takes them).                    *)
(***************************************************************************)
EXTENDS Integers, Sequences, FiniteSets, TLC

VARIABLES
    wrap,      \* the file-static py_wrapper_t: u_params, params_cnt, callable
    routes,    \* engine routing table: procedure name -> object whose registration installed the route
    rereg,     \* history: procedure name -> whether the name was registered more than once
    calls,     \* one record per engine thread: the wrapper invocation it is running
    crashed,   \* the process has died (NULL dereference, wild pointer)
    lastReg,   \* outcome of the last add_procedure call: "none", "ok", "error"
    run        \* the state of server_run

vars == <<wrap, routes, rereg, calls, crashed, lastReg, run>>

---------------------------------------------------------------------------
(* Bounds of the model. *)

MaxArgs == 2        \* a call context supplies at most this many positional / named values
NumThreads == 2     \* engine threads of the concurrent specification
MaxCycles == 3      \* largest max_cycles passed to run
MaxSeconds == 3     \* largest max_seconds passed to run
MaxTick == 2        \* most seconds one take-call step lasts

---------------------------------------------------------------------------
(* py_param_kind_t *)

POSITIONAL_ONLY == 0
POSITIONAL_OR_KEYWORD == 1
VAR_POSITIONAL == 2
KEYWORD_ONLY == 3
VAR_KEYWORD == 4

Kinds == {POSITIONAL_ONLY, POSITIONAL_OR_KEYWORD, VAR_POSITIONAL, KEYWORD_ONLY, VAR_KEYWORD}

(* Code-object flags of CPython, as line 88 and line 134 read them. *)
CO_OPTIMIZED == 1
CO_NEWLOCALS == 2
CO_VARARGS == 4
CO_VARKEYWORDS == 8

(* Values.  NULLV is a NULL PyObject* (an unset tuple slot, an absent       *)
(* default); GARBAGE is an object built from an indeterminate C value.      *)
NULLV == -1
GARBAGE == -2
DefaultBase == 100

(* Declared types (annotations).  "NULL" is an absent annotation:           *)
(* PyDict_GetItem returns NULL.  "other" is a type none of the branches of  *)
(* wrapper matches.  "uninit" is the content of a slot that was never       *)
(* written.                                                                 *)
Types == {"bool", "int", "float", "bytes", "str", "other", "NULL"}

RECURSIVE BitAnd(_, _)
BitAnd(a, b) ==
    IF a = 0 \/ b = 0 THEN 0
    ELSE (IF a % 2 = 1 /\ b % 2 = 1 THEN 1 ELSE 0) + 2 * BitAnd(a \div 2, b \div 2)

RECURSIVE BitOr(_, _)
BitOr(a, b) ==
    IF a = 0 THEN b
    ELSE IF b = 0 THEN a
    ELSE (IF a % 2 = 1 \/ b % 2 = 1 THEN 1 ELSE 0) + 2 * BitOr(a \div 2, b \div 2)

---------------------------------------------------------------------------
(* Python objects handed to add_procedure. *)

Names == {"A", "B"}

\* def <name>(p0, ..., /, ..., p_{pos-1}, *args, k0.., **kw), with `ndefaults`
\* trailing positional defaults, `kwdefaults` the set of keyword-only names
\* (co_varnames indices) that have a default, `ann[i+1]` the annotation of
\* co_varnames[i], `nlocals` further local variables in co_varnames.
Fn(name, posonly, pos, kwonly, varargs, varkw, ndefaults, kwdefaults, ann, raises, nlocals) ==
    [callable |-> TRUE, code |-> TRUE, name |-> name,
     posonly |-> posonly, pos |-> pos, kwonly |-> kwonly,
     varargs |-> varargs, varkw |-> varkw,
     ndefaults |-> ndefaults, kwdefaults |-> kwdefaults,
     ann |-> ann, raises |-> raises, nlocals |-> nlocals]

\* An object that is not callable (PyCallable_Check fails).
NotCallable == [Fn("", 0, 0, 0, FALSE, FALSE, 0, {}, <<>>, FALSE, 0) EXCEPT !.callable = FALSE, !.code = FALSE]
\* A callable without __code__ (a builtin, an instance with __call__).
NoCode(name) == [Fn(name, 0, 0, 0, FALSE, FALSE, 0, {}, <<>>, FALSE, 0) EXCEPT !.code = FALSE]
\* The NULL object pointer.
NULLOBJ == [Fn("", 0, 0, 0, FALSE, FALSE, 0, {}, <<>>, FALSE, 0) EXCEPT !.callable = FALSE, !.code = FALSE, !.name = "NULL"]


---------------------------------------------------------------------------
(* deduce_parameters (lines 55-145) *)

\* co_flags of the function's code object.
CoFlags(f) ==
    CO_OPTIMIZED + CO_NEWLOCALS
        + (IF f.varargs THEN CO_VARARGS ELSE 0)
        + (IF f.varkw THEN CO_VARKEYWORDS ELSE 0)

\* len(co_varnames): the arguments, then the local variables.
VarNamesLen(f) ==
    f.pos + f.kwonly + (IF f.varargs THEN 1 ELSE 0) + (IF f.varkw THEN 1 ELSE 0) + f.nlocals

\* PyTuple_GetItem(arg_names, i): NULL past the end.
GetName(f, i) == IF i >= 0 /\ i < VarNamesLen(f) THEN i ELSE NULLV

\* PyDict_GetItem(annotations, name): the declared type, NULL when absent.
GetAnnotation(f, name) ==
    IF name + 1 \in DOMAIN f.ann THEN f.ann[name + 1] ELSE "NULL"

\* PyTuple_GetItem(defaults, k): the k-th positional default.
DefaultValue(k) == DefaultBase + k

\* PyDict_GetItem(kwdefaults, name)
KwDefaultValue(f, name) == IF name \in f.kwdefaults THEN DefaultBase + name ELSE NULLV

\* line 88
total_params(f) ==
    f.pos + BitAnd(CoFlags(f), CO_VARARGS) + f.kwonly + BitAnd(CoFlags(f), CO_VARKEYWORDS)

\* lines 99, 109: posonly_left-- > 0, evaluated once per positional parameter
PositionalKind(f, i) == IF f.posonly - i > 0 THEN POSITIONAL_ONLY ELSE POSITIONAL_OR_KEYWORD

Param(n, v, t, k) == [name |-> n, value |-> v, type |-> t, kind |-> k]

\* A slot of the malloc'ed array that no loop wrote.
Unwritten == Param(NULLV, NULLV, "uninit", NULLV)

\* lines 94-101
NonDefaultParams(f) ==
    [i \in 1..(f.pos - f.ndefaults) |->
        Param(GetName(f, i - 1), NULLV, GetAnnotation(f, GetName(f, i - 1)), PositionalKind(f, i - 1))]

\* lines 104-111
DefaultParams(f) ==
    [k \in 1..f.ndefaults |->
        LET i == f.pos - f.ndefaults + k - 1
        IN Param(GetName(f, i), DefaultValue(k - 1), GetAnnotation(f, GetName(f, i)), PositionalKind(f, i))]

\* lines 113-120
VarArgsParam(f) ==
    IF BitAnd(CoFlags(f), CO_VARARGS) # 0
    THEN << Param(GetName(f, f.pos + f.kwonly), NULLV,
                  GetAnnotation(f, GetName(f, f.pos + f.kwonly)), VAR_POSITIONAL) >>
    ELSE << >>

\* lines 123-130
KeywordOnlyParams(f) ==
    [k \in 1..f.kwonly |->
        LET i == f.pos + k - 1
        IN Param(GetName(f, i), KwDefaultValue(f, GetName(f, i)),
                 GetAnnotation(f, GetName(f, i)), KEYWORD_ONLY)]

\* line 134: pos_count + keyword_only_count + (co_flags && CO_VARARGS), a logical and
var_kw_name_index(f) ==
    f.pos + f.kwonly + (IF CoFlags(f) # 0 /\ CO_VARARGS # 0 THEN 1 ELSE 0)

\* lines 132-139
VarKwParam(f) ==
    IF BitAnd(CoFlags(f), CO_VARKEYWORDS) # 0
    THEN << Param(GetName(f, var_kw_name_index(f)), NULLV,
                  GetAnnotation(f, GetName(f, var_kw_name_index(f))), VAR_KEYWORD) >>
    ELSE << >>

\* what the five blocks write, in order: parameters[0 .. param_i)
WrittenParams(f) ==
    NonDefaultParams(f) \o DefaultParams(f) \o VarArgsParam(f)
        \o KeywordOnlyParams(f) \o VarKwParam(f)

\* the array of total_params slots after the five blocks
ParamArray(f) ==
    [i \in 1..total_params(f) |->
        IF i <= Len(WrittenParams(f)) THEN WrittenParams(f)[i] ELSE Unwritten]

\* PyDict_GetItem(annotations, NULL) dereferences the NULL key (line 136), and
\* PyObject_GetAttrString(NULL, ...) the NULL code object (line 59).
DeduceCrashes(f) ==
    \/ ~f.code
    \/ \E i \in 1..Len(WrittenParams(f)) : WrittenParams(f)[i].name = NULLV

\* lines 141-144: the new content of wrap.u_params and wrap.params_cnt
deduce_parameters(f) == [u_params |-> ParamArray(f), params_cnt |-> total_params(f)]


---------------------------------------------------------------------------
(* The call context of the engine (ujrpc_call_t) and its getters.           *)

\* JSON types a request's parameters can have.
WireTypes == {"bool", "int", "float", "str"}

\* A request: the names it supplies values for, the number of positional
\* values it supplies, and the JSON type of its values.  The value supplied
\* under name n and the value supplied at position n are both WireValue(n).
\* A JSON-RPC request passes its parameters either by name (an object) or by
\* position (an array).
Contexts ==
    {c \in [named : SUBSET (0..(MaxArgs - 1)), npos : 0..MaxArgs, wt : WireTypes] :
        c.named = {} \/ c.npos = 0}

WireValue(n) == n + 1

\* ujrpc_param_named_bool / _i64 / _f64 / _str: TRUE and the value when the
\* request holds a parameter of that name and type.
ParamNamed(ctx, name, type) ==
    IF name \in ctx.named /\ ctx.wt = type
    THEN [ok |-> TRUE, val |-> WireValue(name)]
    ELSE [ok |-> FALSE, val |-> NULLV]

\* ujrpc_param_positional_bool / _i64 / _f64 / _str
ParamPositional(ctx, i, type) ==
    IF i < ctx.npos /\ ctx.wt = type
    THEN [ok |-> TRUE, val |-> WireValue(i)]
    ELSE [ok |-> FALSE, val |-> NULLV]

---------------------------------------------------------------------------
(* wrapper (lines 147-202) *)

\* line 154: (kind & POSITIONAL_OR_KEYWORD) | (kind & KEYWORD_ONLY) | (kind & VAR_KEYWORD)
may_have_name(kind) ==
    BitOr(BitOr(BitAnd(kind, POSITIONAL_OR_KEYWORD), BitAnd(kind, KEYWORD_ONLY)),
          BitAnd(kind, VAR_KEYWORD)) # 0

\* line 155: (kind & POSITIONAL_OR_KEYWORD) | (kind & POSITIONAL_ONLY) | (kind & VAR_POSITIONAL)
may_have_pos(kind) ==
    BitOr(BitOr(BitAnd(kind, POSITIONAL_OR_KEYWORD), BitAnd(kind, POSITIONAL_ONLY)),
          BitAnd(kind, VAR_POSITIONAL)) # 0

\* lines 157-161: the byte length of the parameter's name, -1 when not asked for
NameLen(slot) == IF may_have_name(slot.kind) THEN 1 ELSE -1

\* The values an object built from an uninitialized `res` can have.
Indeterminate == {GARBAGE} \cup {WireValue(n) : n \in 0..(MaxArgs - 1)}

Outcome(crash, set, val, byName, byPos) ==
    [crash |-> crash, set |-> set, val |-> val, byName |-> byName, byPos |-> byPos]

\* lines 163-183: the bool, int and float branches
ScalarOutcomes(slot, ctx, i) ==
    LET triedName == may_have_name(slot.kind) /\ NameLen(slot) > 0
        named == ParamNamed(ctx, slot.name, slot.type)
        got_named == triedName /\ named.ok
        triedPos == may_have_pos(slot.kind) /\ ~got_named
        positional == ParamPositional(ctx, i, slot.type)
    IN  IF triedPos /\ positional.ok
        THEN {Outcome(FALSE, TRUE, positional.val, triedName, triedPos)}
        ELSE IF got_named
        THEN {Outcome(FALSE, TRUE, named.val, triedName, triedPos)}
        ELSE {Outcome(FALSE, TRUE, v, triedName, triedPos) : v \in Indeterminate}

\* lines 186-193: the str branch.  The positional getter is handed `res`
\* itself, not its address, so it never sets it: without a named value the
\* string is built from an indeterminate pointer and length.
StrOutcomes(slot, ctx, i) ==
    LET triedName == may_have_name(slot.kind) /\ NameLen(slot) > 0
        named == ParamNamed(ctx, slot.name, slot.type)
        got_named == triedName /\ named.ok
        triedPos == may_have_pos(slot.kind) /\ ~got_named
    IN  IF got_named
        THEN {Outcome(FALSE, TRUE, named.val, triedName, triedPos)}
        ELSE {Outcome(TRUE, FALSE, NULLV, triedName, triedPos),
              Outcome(FALSE, TRUE, GARBAGE, triedName, triedPos)}

\* One iteration of the loop of lines 151-195 on descriptor slot `slot`.
ParamOutcomes(slot, ctx, i) ==
    CASE slot.type = "uninit" ->
            \* an indeterminate type pointer handed to PyType_IsSubtype
            {Outcome(TRUE, FALSE, NULLV, FALSE, FALSE), Outcome(FALSE, FALSE, NULLV, FALSE, FALSE)}
      [] slot.type = "NULL" ->
            \* PyType_IsSubtype(NULL, ...) reads NULL->tp_mro
            {Outcome(TRUE, FALSE, NULLV, FALSE, FALSE)}
      [] slot.type \in {"bool", "int", "float"} -> ScalarOutcomes(slot, ctx, i)
      [] slot.type = "str" -> StrOutcomes(slot, ctx, i)
      [] OTHER -> {Outcome(FALSE, FALSE, NULLV, FALSE, FALSE)}

\* PyTuple_SetItem(args, i, v): refused when i is out of range
TupleSetItem(args, i, v) ==
    IF i + 1 \in DOMAIN args THEN [args EXCEPT ![i + 1] = v] ELSE args

\* Whether Python can bind n positional arguments to f's parameters.
Binds(f, n) ==
    /\ n >= f.pos - f.ndefaults
    /\ (n <= f.pos \/ f.varargs)
    /\ \A k \in f.pos..(f.pos + f.kwonly - 1) : k \in f.kwdefaults

\* PyObject_CallObject(wrap.callable, args) (line 197): NULL when the call
\* raises.  A tuple with a NULL item is outside the C-API's contract.
CallOutcomes(f, args) ==
    IF \E k \in DOMAIN args : args[k] = NULLV
    THEN {"crash", "NULL"}
    ELSE IF f.raises \/ ~Binds(f, Len(args)) THEN {"NULL"} ELSE {"value"}

\* to_string (helpers/py_parse.hpp): the length of the serialized response
to_string(response) == IF response = "NULL" THEN 0 ELSE 1

IdleCall ==
    [pc |-> "idle", name |-> "", ctx |-> [named |-> {}, npos |-> 0, wt |-> "int"],
     i |-> 0, args |-> << >>, log |-> << >>, target |-> NULLOBJ, passed |-> << >>,
     response |-> "none", replies |-> << >>]


---------------------------------------------------------------------------
(* server_add_procedure (lines 204-222) *)

\* The objects the single-threaded specification registers.
Catalog ==
    { Fn("A", 0, 2, 0, FALSE, FALSE, 0, {}, <<"int", "int">>, FALSE, 0),     \* def A(a: int, b: int)
      Fn("A", 0, 1, 0, FALSE, FALSE, 1, {}, <<"int">>, FALSE, 0),            \* def A(a: int = d)
      Fn("A", 0, 0, 1, FALSE, FALSE, 0, {0}, <<"float">>, FALSE, 0),         \* def A(*, a: float = d)
      Fn("A", 0, 1, 0, FALSE, FALSE, 0, {}, <<"bool">>, TRUE, 0),            \* def A(a: bool): raise ...
      Fn("B", 0, 1, 0, FALSE, FALSE, 0, {}, <<"str">>, FALSE, 0),            \* def B(a: str)
      Fn("B", 1, 1, 0, FALSE, FALSE, 0, {}, <<"int">>, FALSE, 0),            \* def B(a: int, /)
      Fn("B", 0, 1, 0, TRUE, FALSE, 0, {}, <<"int", "int">>, FALSE, 0),      \* def B(a: int, *args: int)
      Fn("B", 0, 1, 0, FALSE, FALSE, 0, {}, << >>, FALSE, 0),                \* def B(a)
      Fn("B", 0, 0, 0, FALSE, TRUE, 0, {}, << >>, FALSE, 0),                 \* def B(**kw)
      Fn("B", 0, 0, 0, FALSE, TRUE, 0, {}, <<"int">>, FALSE, 1),             \* def B(**kw: int): x = ...
      NoCode("A"),
      NotCallable }

\* The objects the concurrent specification registers.
SmallCatalog ==
    { Fn("A", 0, 2, 0, FALSE, FALSE, 0, {}, <<"int", "int">>, FALSE, 0),     \* def A(a: int, b: int)
      Fn("B", 0, 1, 0, FALSE, FALSE, 0, {}, <<"str">>, FALSE, 0) }           \* def B(a: str)

\* The requests of the concurrent specification: every value by name, or
\* every value by position.
FullContexts ==
    {c \in Contexts : c.wt \in {"int", "str"} /\ (c.named = 0..(MaxArgs - 1) \/ c.npos = MaxArgs)}

\* A registration that stores the binding without the check of line 213.
WrapAfterAddUnchecked(w, obj) ==
    [u_params |-> deduce_parameters(obj).u_params,
     params_cnt |-> deduce_parameters(obj).params_cnt,
     callable |-> obj]

\* lines 141-143 and 219: the value of `wrap` after add_procedure(obj) returns
WrapAfterAdd(w, obj) ==
    IF ~obj.callable
    THEN w
    ELSE [u_params |-> deduce_parameters(obj).u_params,
          params_cnt |-> deduce_parameters(obj).params_cnt,
          callable |-> obj]

\* line 220: the routing table after add_procedure(obj) returns
RoutesAfterAdd(r, obj) ==
    IF ~obj.callable THEN r ELSE [r EXCEPT ![obj.name] = obj]

\* deduce_parameters returns 0 on every path (line 144), so line 218 is never
\* taken: the only error return is the one of line 215.  add_procedure is
\* entered from Python with the interpreter lock held, which server_run does
\* not release around ujrpc_take_call (lines 234-240): no handler is running
\* while a registration runs.
server_add_procedure(obj) ==
    /\ ~crashed
    /\ \A t \in DOMAIN calls : calls[t].pc = "idle"
    /\ IF obj.callable /\ DeduceCrashes(obj)
       THEN /\ crashed' = TRUE
            /\ UNCHANGED <<wrap, routes, rereg, calls, lastReg>>
       ELSE /\ wrap' = WrapAfterAdd(wrap, obj)
            /\ routes' = RoutesAfterAdd(routes, obj)
            /\ rereg' = IF obj.callable
                        THEN [rereg EXCEPT ![obj.name] = @ \/ routes[obj.name] # NULLOBJ]
                        ELSE rereg
            /\ lastReg' = IF obj.callable THEN "ok" ELSE "error"
            /\ UNCHANGED <<calls, crashed>>
    /\ UNCHANGED run

---------------------------------------------------------------------------
(* wrapper, as the engine runs it on thread t *)

\* The engine routes a request for procedure n to its handler, which
\* allocates the argument tuple (line 149).
wrapper_enter(t, n, ctx) ==
    /\ ~crashed
    /\ calls[t].pc = "idle"
    /\ routes[n] # NULLOBJ
    /\ calls' = [calls EXCEPT ![t] =
                    [IdleCall EXCEPT !.pc = "marshal", !.name = n, !.ctx = ctx,
                                     !.args = [k \in 1..wrap.params_cnt |-> NULLV]]]
    /\ UNCHANGED <<wrap, routes, rereg, crashed, lastReg, run>>

\* One iteration of the loop of lines 151-195.
wrapper_param(t) ==
    /\ ~crashed
    /\ calls[t].pc = "marshal"
    /\ calls[t].i < wrap.params_cnt
    /\ LET c == calls[t]
           slot == wrap.u_params[c.i + 1]
       IN \E o \in ParamOutcomes(slot, c.ctx, c.i) :
            LET entry == [slot |-> slot, byName |-> o.byName, byPos |-> o.byPos]
            IN IF o.crash
               THEN /\ calls' = [calls EXCEPT ![t] =
                                    [c EXCEPT !.pc = "crashed", !.log = Append(@, entry)]]
                    /\ crashed' = TRUE
               ELSE /\ calls' = [calls EXCEPT ![t] =
                                    [c EXCEPT !.i = @ + 1,
                                              !.log = Append(@, entry),
                                              !.args = IF o.set THEN TupleSetItem(@, c.i, o.val) ELSE @]]
                    /\ UNCHANGED crashed
    /\ UNCHANGED <<wrap, routes, rereg, lastReg, run>>

\* line 197
wrapper_call(t) ==
    /\ ~crashed
    /\ calls[t].pc = "marshal"
    /\ calls[t].i >= wrap.params_cnt
    /\ \E r \in CallOutcomes(wrap.callable, calls[t].args) :
         IF r = "crash"
         THEN /\ calls' = [calls EXCEPT ![t] = [@ EXCEPT !.pc = "crashed"]]
              /\ crashed' = TRUE
         ELSE /\ calls' = [calls EXCEPT ![t] =
                              [@ EXCEPT !.pc = "reply", !.target = wrap.callable,
                                        !.passed = calls[t].args, !.response = r]]
              /\ UNCHANGED crashed
    /\ UNCHANGED <<wrap, routes, rereg, lastReg, run>>

\* lines 198-202
wrapper_reply(t) ==
    /\ ~crashed
    /\ calls[t].pc = "reply"
    /\ calls' = [calls EXCEPT ![t] =
                    [@ EXCEPT !.pc = "done",
                              !.replies = Append(@, [kind |-> "content", len |-> to_string(calls[t].response)])]]
    /\ UNCHANGED <<wrap, routes, rereg, crashed, lastReg, run>>

\* The handler has returned; the engine thread takes its next request.
wrapper_return(t) ==
    /\ ~crashed
    /\ calls[t].pc = "done"
    /\ calls' = [calls EXCEPT ![t] = IdleCall]
    /\ UNCHANGED <<wrap, routes, rereg, crashed, lastReg, run>>

---------------------------------------------------------------------------
(* server_run (lines 224-242) *)

IdleRun == [pc |-> "idle", max_cycles |-> 0, max_seconds |-> 0, cycles0 |-> 0,
            seconds0 |-> 0, taken |-> 0, elapsed |-> 0]

\* lines 225-233: run(max_cycles, max_seconds) is entered
server_run_enter(mc, ms) ==
    /\ ~crashed
    /\ run.pc \in {"idle", "returned"}
    /\ run' = [pc |-> "loop", max_cycles |-> mc, max_seconds |-> ms, cycles0 |-> mc,
               seconds0 |-> ms, taken |-> 0, elapsed |-> 0]
    /\ UNCHANGED <<wrap, routes, rereg, calls, crashed, lastReg>>

\* line 234
LoopCondition(r) == r.max_cycles > 0 /\ r.max_seconds > 0

\* A loop that forgets to count the cycle.
NextCyclesUncounted(mc) == mc

\* line 236
NextCycles(mc) == mc - 1

\* lines 237-238: d seconds passed since `start`
NextSeconds(ms, d) == ms - d

\* lines 235-239: one iteration; ujrpc_take_call returns after d seconds
server_run_take_call(d) ==
    /\ ~crashed
    /\ run.pc = "loop"
    /\ LoopCondition(run)
    /\ run' = [run EXCEPT !.max_cycles = NextCycles(@),
                          !.max_seconds = NextSeconds(@, d),
                          !.taken = @ + 1,
                          !.elapsed = @ + d]
    /\ UNCHANGED <<wrap, routes, rereg, calls, crashed, lastReg>>

\* line 241
server_run_return ==
    /\ ~crashed
    /\ run.pc = "loop"
    /\ ~LoopCondition(run)
    /\ run' = [run EXCEPT !.pc = "returned"]
    /\ UNCHANGED <<wrap, routes, rereg, calls, crashed, lastReg>>

---------------------------------------------------------------------------
(* Specifications *)

\* line 53: the static `wrap` is zero-initialized
InitOver(T) ==
    /\ wrap = [u_params |-> << >>, params_cnt |-> 0, callable |-> NULLOBJ]
    /\ routes = [n \in Names |-> NULLOBJ]
    /\ rereg = [n \in Names |-> FALSE]
    /\ calls = [t \in T |-> IdleCall]
    /\ crashed = FALSE
    /\ lastReg = "none"
    /\ run = IdleRun

\* server_init sets thread_cnt to 1 (line 292)
Init == InitOver({1})

Next ==
    \/ \E obj \in Catalog : server_add_procedure(obj)
    \/ \E n \in Names, ctx \in Contexts : wrapper_enter(1, n, ctx)
    \/ wrapper_param(1)
    \/ wrapper_call(1)
    \/ wrapper_reply(1)
    \/ wrapper_return(1)

Spec == Init /\ [][Next]_vars

\* Several engine threads running the handler at once.
ConcInit == InitOver(1..NumThreads)

ConcNext ==
    \/ \E obj \in SmallCatalog : server_add_procedure(obj)
    \/ \E t \in 1..NumThreads, n \in Names, ctx \in FullContexts : wrapper_enter(t, n, ctx)
    \/ \E t \in 1..NumThreads : wrapper_param(t)
    \/ \E t \in 1..NumThreads : wrapper_call(t)
    \/ \E t \in 1..NumThreads : wrapper_reply(t)
    \/ \E t \in 1..NumThreads : wrapper_return(t)

ConcSpec == ConcInit /\ [][ConcNext]_vars

\* The serving loop alone; each take-call step returns.
RunNext ==
    \/ \E mc \in (-1)..MaxCycles, ms \in (-1)..MaxSeconds : server_run_enter(mc, ms)
    \/ \E d \in 0..MaxTick : server_run_take_call(d)
    \/ server_run_return

RunSpec == Init /\ [][RunNext]_vars /\ WF_vars(\E d \in 0..MaxTick : server_run_take_call(d)) /\ WF_vars(server_run_return)


---------------------------------------------------------------------------
(* Properties *)

ScalarTypes == {"bool", "int", "float", "str"}
NameKinds == {POSITIONAL_OR_KEYWORD, KEYWORD_ONLY, VAR_KEYWORD}
PositionKinds == {POSITIONAL_ONLY, POSITIONAL_OR_KEYWORD, VAR_POSITIONAL}

\* Invocation c has read descriptors of, and called, only the procedure
\* registered under the name it was routed by.
UsesOwnBinding(c) ==
    /\ \A k \in DOMAIN c.log :
          /\ k \in DOMAIN ParamArray(routes[c.name])
          /\ c.log[k].slot = ParamArray(routes[c.name])[k]
    /\ Len(c.args) = total_params(routes[c.name])
    /\ c.pc \in {"reply", "done"} => c.target = routes[c.name]

\* C1: after registrations of procedures with distinct names, an invocation
\* for name N marshals with the signature deduced for the callable registered
\* under N and invokes that callable.
C1_InvocationUsesBindingOfItsName ==
    (\A n \in Names : ~rereg[n]) =>
        \A t \in DOMAIN calls : calls[t].pc # "idle" => UsesOwnBinding(calls[t])

\* C2: two different procedures invoked concurrently on two threads each read
\* only their own signature and target, under every interleaving.
C2_ConcurrentInvocationsDoNotMix ==
    \A t1, t2 \in DOMAIN calls :
        (/\ t1 # t2
         /\ calls[t1].pc # "idle"
         /\ calls[t2].pc # "idle"
         /\ calls[t1].name # calls[t2].name)
        => UsesOwnBinding(calls[t1]) /\ UsesOwnBinding(calls[t2])

\* C3: once a name has been registered again, every later invocation of that
\* name uses the callable and the signature of the latest registration.
C3_ReRegistrationReplacesBinding ==
    \A t \in DOMAIN calls :
        (calls[t].pc # "idle" /\ rereg[calls[t].name]) => UsesOwnBinding(calls[t])

\* C4: an invocation of the handler that has ended has written exactly one
\* response to its call context.
C4_ExactlyOneResponse ==
    \A t \in DOMAIN calls :
        calls[t].pc \in {"done", "crashed"} => Len(calls[t].replies) = 1

\* The request supplies descriptor k (0-based) neither by name nor by position.
NotSupplied(slot, k, ctx) == slot.name \notin ctx.named /\ k >= ctx.npos

\* C5: a parameter the request supplies neither by name nor by position gets
\* its default when it has one; when it has none the call ends with a
\* MissingRequiredParameter error response and the target is not invoked.
C5_DefaultOrMissingParameterError ==
    \A t \in DOMAIN calls :
        calls[t].pc = "done" =>
            \A k \in DOMAIN calls[t].log :
                LET slot == calls[t].log[k].slot
                IN (slot # Unwritten /\ NotSupplied(slot, k - 1, calls[t].ctx)) =>
                      IF slot.value # NULLV
                      THEN /\ k \in DOMAIN calls[t].passed
                           /\ calls[t].passed[k] = slot.value
                      ELSE /\ calls[t].target = NULLOBJ
                           /\ Len(calls[t].replies) = 1
                           /\ calls[t].replies[1].kind = "MissingRequiredParameter"

\* Every parameter of the registered procedure is PositionalOrKeyword with a
\* declared scalar type, which is the type of the request's values.
AllPositionalOrKeywordOf(type) ==
    /\ wrap.params_cnt > 0
    /\ \A k \in DOMAIN wrap.u_params :
          /\ wrap.u_params[k].kind = POSITIONAL_OR_KEYWORD
          /\ wrap.u_params[k].type = type
          /\ type \in ScalarTypes

AllByName(ctx) == ctx.npos = 0 /\ \A k \in DOMAIN wrap.u_params : wrap.u_params[k].name \in ctx.named
AllByPosition(ctx) == ctx.named = {} /\ ctx.npos >= wrap.params_cnt

\* C6: for a procedure whose parameters are all PositionalOrKeyword with a
\* scalar type, an invocation with every parameter by name and one with the
\* same values by position pass the same argument list to the target.
C6_ByNameEqualsByPosition ==
    \A t1, t2 \in DOMAIN calls :
        (/\ calls[t1].pc \in {"done", "crashed"}
         /\ calls[t2].pc \in {"done", "crashed"}
         /\ calls[t1].name = calls[t2].name
         /\ routes[calls[t1].name] = wrap.callable
         /\ calls[t1].ctx.wt = calls[t2].ctx.wt
         /\ AllPositionalOrKeywordOf(calls[t1].ctx.wt)
         /\ AllByName(calls[t1].ctx)
         /\ AllByPosition(calls[t2].ctx))
        => /\ calls[t1].pc = "done"
           /\ calls[t2].pc = "done"
           /\ calls[t1].target = calls[t2].target
           /\ calls[t1].passed = calls[t2].passed

Max(a, b) == IF a >= b THEN a ELSE b

\* C8: run takes at most max_cycles calls, none when a budget is not
\* positive, takes a call only while both budgets last, and returns.
C8_RunTakesBoundedCallsAndReturns ==
    /\ [](run.taken <= Max(run.cycles0, 0))
    /\ []((run.cycles0 <= 0 \/ run.seconds0 <= 0) => run.taken = 0)
    /\ [][run'.taken = run.taken + 1 =>
             (run.taken < run.cycles0 /\ run.elapsed < run.seconds0)]_vars
    /\ [](run.pc = "returned" =>
             (run.taken = run.cycles0 \/ run.elapsed >= run.seconds0 \/ run.taken = 0))
    /\ ((run.pc = "loop") ~> (run.pc = "returned"))

\* A run that the time budget ended before the cycle budget.
C8_Witness ==
    /\ run.pc = "returned"
    /\ run.taken > 0
    /\ run.taken < run.cycles0

\* C9: name-based extraction is attempted exactly for PositionalOrKeyword,
\* KeywordOnly and VariadicKeyword parameters, position-based extraction only
\* for PositionalOnly, PositionalOrKeyword and VariadicPositional ones; a
\* PositionalOnly parameter is looked up by position and never by name, a
\* KeywordOnly one by name and never by position.
C9_ExtractionFollowsKind ==
    \A t \in DOMAIN calls :
        \A k \in DOMAIN calls[t].log :
            LET e == calls[t].log[k]
            IN e.slot.type \in ScalarTypes =>
                /\ e.byName <=> e.slot.kind \in NameKinds
                /\ e.byPos => e.slot.kind \in PositionKinds
                /\ e.slot.kind = POSITIONAL_ONLY => (e.byPos /\ ~e.byName)
                /\ e.slot.kind = KEYWORD_ONLY => (e.byName /\ ~e.byPos)

\* The number of slots of the descriptor array that were written.
WrittenCount(params) == Cardinality({k \in DOMAIN params : params[k] # Unwritten})

\* C10: the stored parameter count is positional + (1 if *args) + keyword-only
\* + (1 if **kw), the number of descriptors written, and the handler never
\* reads a slot that was not written.
C10_CountEqualsDescriptorsWritten ==
    /\ wrap.callable # NULLOBJ =>
          /\ wrap.params_cnt = wrap.callable.pos + (IF wrap.callable.varargs THEN 1 ELSE 0)
                                 + wrap.callable.kwonly + (IF wrap.callable.varkw THEN 1 ELSE 0)
          /\ wrap.params_cnt = WrittenCount(wrap.u_params)
    /\ \A t \in DOMAIN calls :
          \A k \in DOMAIN calls[t].log : calls[t].log[k].slot # Unwritten

=============================================================================
